---- MODULE Spec2Model ----
(***************************************************************************)
(* Model of UniformGridRandomFieldGenerator<SPACE_DIM>                     *)
(* (src/src/UniformGridRandomFieldGenerator.cpp).                          *)
(*                                                                         *)
(* A double is modelled as an integer count of 10^-(Precision+1), i.e. one *)
(* decimal digit finer than the precision the file name is printed with,   *)
(* so that rounding in the file name is observable.  Values whose last     *)
(* digit is 5 (exact decimal ties) are kept out of the inputs: such a      *)
(* decimal is not a binary double and the direction printf rounds it in    *)
(* depends on the nearest double.                                          *)
(*                                                                         *)
(* Three specifications share the variables:                               *)
(*   Spec      the constructor, LoadFromCache and SaveToCache acting on a  *)
(*             cache directory;                                            *)
(*   SpecKey   GetFilenameFromParams applied to two parameter sets;        *)
(*   SpecDist  GetSquaredDistAtoB applied to a domain and two locations.   *)
(***************************************************************************)
EXTENDS Integers, Sequences, FiniteSets, TLC

VARIABLES
    files,       \* cache directory: file name -> [header, payload]
    unreadable,  \* file names that cannot be opened for reading
    unwritable,  \* file names that cannot be opened for writing
    gens,        \* the generator instances constructed so far, in order
    lastOp,      \* what the most recent operation did
    nOps,        \* operations performed so far
    dir0,        \* history: the cache directory as it was at the start
    keyCall,     \* SpecKey: two parameter sets and their file names
    distCall     \* SpecDist: a domain, two locations and the distance

vars == <<files, unreadable, unwritable, gens, lastOp, nOps, dir0, keyCall, distCall>>

\* std::setprecision(3) on the file name stream.
Precision == 3

\* Most generator instances constructed in one behaviour.
MaxGens == 2

\* Most operations (constructions, loads, saves) in one behaviour.
MaxOps == 3

\* Largest coordinate of a location or corner in SpecDist.
MaxCoord == 3

RECURSIVE Pow10(_)
Pow10(n) == IF n = 0 THEN 1 ELSE 10 * Pow10(n - 1)

Abs(x) == IF x < 0 THEN -x ELSE x

Min(x, y) == IF y < x THEN y ELSE x

\* A parameter set: the template argument and the six constructor arguments.
Params(dim, lo, up, grid, per, nEig, ls) ==
    [dim |-> dim, mLowerCorner |-> lo, mUpperCorner |-> up, mNumGridPts |-> grid,
     mPeriodicity |-> per, mNumEigenvals |-> nEig, mLengthScale |-> ls]

(***************************************************************************)
(* GetFilenameFromParams: the stream insertions, one token each.           *)
(***************************************************************************)

RECURSIVE PadDigits(_, _)
\* The w low decimal digits of n, zero padded.
PadDigits(n, w) ==
    IF w = 0 THEN "" ELSE PadDigits(n \div 10, w - 1) \o ToString(n % 10)

\* Mutant: the stream is left at the model's full precision (no rounding
\* to Precision digits).
OutDoubleUnrounded(v) ==
    [kind |-> "double", decimals |-> Precision + 1,
     text |-> (IF v < 0 THEN "-" ELSE "") \o ToString(Abs(v) \div Pow10(Precision + 1))
              \o "." \o PadDigits(Abs(v) % Pow10(Precision + 1), Precision + 1)]

\* name << double under std::fixed << std::setprecision(3): the value rounded
\* to the nearest 10^-3, sign kept (a negative value that rounds to zero
\* prints "-0.000").
OutDouble(v) ==
    LET r == (Abs(v) + 5) \div 10
    IN  [kind |-> "double", decimals |-> Precision,
         text |-> (IF v < 0 THEN "-" ELSE "") \o ToString(r \div Pow10(Precision))
                  \o "." \o PadDigits(r % Pow10(Precision), Precision)]

\* name << unsigned: plain decimal, the precision does not apply.
OutUnsigned(n) == [kind |-> "unsigned", decimals |-> 0, text |-> ToString(n)]

\* name << bool without boolalpha: 0 or 1.
OutBool(b) == [kind |-> "bool", decimals |-> 0, text |-> IF b THEN "1" ELSE "0"]

\* name << "literal"
OutLit(s) == [kind |-> "lit", decimals |-> 0, text |-> s]

\* Mutant: the 2-d case writes the upper corner before the lower corner.
FilenameTokensSwapped(p) ==
    <<OutLit("CachedRandomFields/")>> \o
    ( CASE p.dim = 1 ->
            <<OutLit("x_"),
              OutDouble(p.mLowerCorner[1]), OutLit("_"),
              OutDouble(p.mUpperCorner[1]), OutLit("_"),
              OutUnsigned(p.mNumGridPts[1]), OutLit("_"),
              OutBool(p.mPeriodicity[1]), OutLit("_"),
              OutUnsigned(p.mNumEigenvals), OutLit("_"),
              OutDouble(p.mLengthScale)>>
        [] p.dim = 2 ->
            <<OutLit("xy_"),
              OutDouble(p.mUpperCorner[1]), OutLit("_"), OutDouble(p.mUpperCorner[2]), OutLit("_"),
              OutDouble(p.mLowerCorner[1]), OutLit("_"), OutDouble(p.mLowerCorner[2]), OutLit("_"),
              OutUnsigned(p.mNumGridPts[1]), OutLit("_"), OutUnsigned(p.mNumGridPts[2]), OutLit("_"),
              OutBool(p.mPeriodicity[1]), OutLit("_"), OutBool(p.mPeriodicity[2]), OutLit("_"),
              OutUnsigned(p.mNumEigenvals), OutLit("_"),
              OutDouble(p.mLengthScale)>>
        [] p.dim = 3 ->
            <<OutLit("xyz_"),
              OutDouble(p.mLowerCorner[1]), OutLit("_"), OutDouble(p.mLowerCorner[2]), OutLit("_"),
              OutDouble(p.mLowerCorner[3]), OutLit("_"),
              OutDouble(p.mUpperCorner[1]), OutLit("_"), OutDouble(p.mUpperCorner[2]), OutLit("_"),
              OutDouble(p.mUpperCorner[3]), OutLit("_"),
              OutUnsigned(p.mNumGridPts[1]), OutLit("_"), OutUnsigned(p.mNumGridPts[2]), OutLit("_"),
              OutUnsigned(p.mNumGridPts[3]), OutLit("_"),
              OutBool(p.mPeriodicity[1]), OutLit("_"), OutBool(p.mPeriodicity[2]), OutLit("_"),
              OutBool(p.mPeriodicity[3]), OutLit("_"),
              OutUnsigned(p.mNumEigenvals), OutLit("_"),
              OutDouble(p.mLengthScale)>> ) \o
    <<OutLit(".rfg")>>

\* The insertions of GetFilenameFromParams in order: the directory, the
\* switch on SPACE_DIM, the extension.
FilenameTokens(p) ==
    <<OutLit("CachedRandomFields/")>> \o
    ( CASE p.dim = 1 ->
            <<OutLit("x_"),
              OutDouble(p.mLowerCorner[1]), OutLit("_"),
              OutDouble(p.mUpperCorner[1]), OutLit("_"),
              OutUnsigned(p.mNumGridPts[1]), OutLit("_"),
              OutBool(p.mPeriodicity[1]), OutLit("_"),
              OutUnsigned(p.mNumEigenvals), OutLit("_"),
              OutDouble(p.mLengthScale)>>
        [] p.dim = 2 ->
            <<OutLit("xy_"),
              OutDouble(p.mLowerCorner[1]), OutLit("_"), OutDouble(p.mLowerCorner[2]), OutLit("_"),
              OutDouble(p.mUpperCorner[1]), OutLit("_"), OutDouble(p.mUpperCorner[2]), OutLit("_"),
              OutUnsigned(p.mNumGridPts[1]), OutLit("_"), OutUnsigned(p.mNumGridPts[2]), OutLit("_"),
              OutBool(p.mPeriodicity[1]), OutLit("_"), OutBool(p.mPeriodicity[2]), OutLit("_"),
              OutUnsigned(p.mNumEigenvals), OutLit("_"),
              OutDouble(p.mLengthScale)>>
        [] p.dim = 3 ->
            <<OutLit("xyz_"),
              OutDouble(p.mLowerCorner[1]), OutLit("_"), OutDouble(p.mLowerCorner[2]), OutLit("_"),
              OutDouble(p.mLowerCorner[3]), OutLit("_"),
              OutDouble(p.mUpperCorner[1]), OutLit("_"), OutDouble(p.mUpperCorner[2]), OutLit("_"),
              OutDouble(p.mUpperCorner[3]), OutLit("_"),
              OutUnsigned(p.mNumGridPts[1]), OutLit("_"), OutUnsigned(p.mNumGridPts[2]), OutLit("_"),
              OutUnsigned(p.mNumGridPts[3]), OutLit("_"),
              OutBool(p.mPeriodicity[1]), OutLit("_"), OutBool(p.mPeriodicity[2]), OutLit("_"),
              OutBool(p.mPeriodicity[3]), OutLit("_"),
              OutUnsigned(p.mNumEigenvals), OutLit("_"),
              OutDouble(p.mLengthScale)>> ) \o
    <<OutLit(".rfg")>>

RECURSIVE StreamStr(_)
\* name.str(): the texts inserted so far, concatenated.
StreamStr(toks) ==
    IF toks = <<>> THEN "" ELSE toks[1].text \o StreamStr(Tail(toks))

GetFilenameFromParams(p) == StreamStr(FilenameTokens(p))

(***************************************************************************)
(* GetSquaredDistAtoB                                                      *)
(***************************************************************************)

\* Mutant: the difference is taken without std::fabs.
DeltaThisDimNoFabs(g, rLocation1, rLocation2, dim) ==
    LET delta == rLocation2[dim] - rLocation1[dim]
    IN  IF g.mPeriodicity[dim]
        THEN Min(delta, (g.mUpperCorner[dim] - g.mLowerCorner[dim]) - delta)
        ELSE delta

\* Mutant: the periodic branch is skipped.
DeltaThisDimNoWrap(g, rLocation1, rLocation2, dim) ==
    Abs(rLocation2[dim] - rLocation1[dim])

\* The loop body: the absolute difference, replaced on a periodic axis by
\* the smaller of it and the domain width minus it.
DeltaThisDim(g, rLocation1, rLocation2, dim) ==
    LET delta_this_dim == Abs(rLocation2[dim] - rLocation1[dim])
    IN  IF g.mPeriodicity[dim]
        THEN LET domain_width_this_dim == g.mUpperCorner[dim] - g.mLowerCorner[dim]
             IN  Min(delta_this_dim, domain_width_this_dim - delta_this_dim)
        ELSE delta_this_dim

RECURSIVE DistLoop(_, _, _, _, _)
\* for (dim = 0; dim < SPACE_DIM; ++dim) dist_squared += delta * delta
DistLoop(g, rLocation1, rLocation2, dim, dist_squared) ==
    IF dim > g.dim
    THEN dist_squared
    ELSE LET d == DeltaThisDim(g, rLocation1, rLocation2, dim)
         IN  DistLoop(g, rLocation1, rLocation2, dim + 1, dist_squared + d * d)

GetSquaredDistAtoB(g, rLocation1, rLocation2) ==
    DistLoop(g, rLocation1, rLocation2, 1, 0)

(***************************************************************************)
(* The cache codec and the constructor                                     *)
(***************************************************************************)

\* Contents indeterminate memory may hold (a freshly resized Eigen array,
\* a buffer std::istream::read did not fill).
Uninit == {-1, -2}

RECURSIVE Product(_)
\* std::accumulate(begin, end, 1u, std::multiplies<unsigned>())
Product(s) == IF s = <<>> THEN 1 ELSE s[1] * Product(Tail(s))

\* Default-constructed Eigen arrays: no entries.
EmptyVec == <<>>

EmptyMat == [rows |-> 0, cols |-> 0, data |-> <<>>]

\* The RandomFieldCacheHeader filled from, or copied into, the six members.
Header(g) ==
    [dim |-> g.dim, mLowerCorner |-> g.mLowerCorner, mUpperCorner |-> g.mUpperCorner,
     mNumGridPts |-> g.mNumGridPts, mPeriodicity |-> g.mPeriodicity,
     mNumEigenvals |-> g.mNumEigenvals, mLengthScale |-> g.mLengthScale]

\* The members after the constructor's initialiser list: the six arguments
\* and two empty Eigen arrays.  supplied and path are history fields.
Initialised(p) ==
    [dim |-> p.dim, mLowerCorner |-> p.mLowerCorner, mUpperCorner |-> p.mUpperCorner,
     mNumGridPts |-> p.mNumGridPts, mPeriodicity |-> p.mPeriodicity,
     mNumEigenvals |-> p.mNumEigenvals, mLengthScale |-> p.mLengthScale,
     mEigenvals |-> EmptyVec, mEigenvecs |-> EmptyMat,
     supplied |-> p, path |-> "cold"]

\* FileFinder::Exists
Exists(name) == name \in DOMAIN files

\* std::ifstream(path, in | binary).is_open()
OpensForReading(name) == name \in DOMAIN files /\ name \notin unreadable

\* std::ofstream(path, out | binary).is_open()
OpensForWriting(name) == name \notin unwritable

\* What one input_file.read of n doubles leaves in a buffer: the doubles the
\* file still holds from position pos on, then whatever the buffer held.
\* A read that comes up short sets failbit, so a following read gets nothing.
Delivered(payload, pos, n, failed) ==
    IF failed THEN 0 ELSE Min(n, Len(payload) - pos)

\* The buffers an Eigen resize to n entries can leave: the old entries when
\* the size does not change, indeterminate entries otherwise.
Resized(old, n) ==
    IF Len(old) = n THEN {old} ELSE [1..n -> Uninit]

\* buf after read((char*) buf.data(), n * sizeof(double))
ReadInto(buf, payload, pos, k) ==
    [j \in 1..Len(buf) |-> IF j <= k THEN payload[pos + j] ELSE buf[j]]

\* LoadFromCache after a successful open: every state the members can be
\* left in.  The header is copied into the six members, the arrays are
\* resized from it, and the eigenvalues and then the eigenvectors are read.
Loaded(g, f) ==
    LET h             == f.header
        total_gridpts == Product(h.mNumGridPts)
        n             == h.mNumEigenvals
        k1            == Delivered(f.payload, 0, n, FALSE)
        k2            == Delivered(f.payload, n, total_gridpts * n, k1 < n)
    IN  { [g EXCEPT !.mLowerCorner = h.mLowerCorner,
                    !.mUpperCorner = h.mUpperCorner,
                    !.mNumGridPts = h.mNumGridPts,
                    !.mPeriodicity = h.mPeriodicity,
                    !.mNumEigenvals = h.mNumEigenvals,
                    !.mLengthScale = h.mLengthScale,
                    !.mEigenvals = ReadInto(vals, f.payload, 0, k1),
                    !.mEigenvecs = [rows |-> total_gridpts, cols |-> n,
                                    data |-> ReadInto(vecs, f.payload, n, k2)]] :
          vals \in Resized(g.mEigenvals, n),
          vecs \in Resized(g.mEigenvecs.data, total_gridpts * n) }

\* The bytes SaveToCache writes: the header, mEigenvals.size() doubles,
\* mEigenvecs.size() doubles.
Written(g) ==
    [header |-> Header(g), payload |-> g.mEigenvals \o g.mEigenvecs.data,
     savedVals |-> g.mEigenvals, savedVecs |-> g.mEigenvecs]

\* The record of an operation: which, on which instance and file, how it
\* ended, how often the file was opened, and the doubles asked for and moved.
Op(op, gen, file, outcome, opens, asked, moved) ==
    [op |-> op, gen |-> gen, file |-> file, outcome |-> outcome,
     opens |-> opens, asked |-> asked, moved |-> moved]

NoOp == Op("none", 0, "", "ok", 0, 0, 0)

\* Doubles LoadFromCache asks the stream for after the header.
Asked(f) ==
    f.header.mNumEigenvals + Product(f.header.mNumGridPts) * f.header.mNumEigenvals

\* Doubles the stream hands over.
Moved(f) ==
    LET n  == f.header.mNumEigenvals
        k1 == Delivered(f.payload, 0, n, FALSE)
    IN  k1 + Delivered(f.payload, n, Product(f.header.mNumGridPts) * n, k1 < n)

\* The parameter sets the constructor is called with.
PA1 == Params(1, <<0>>, <<10000>>, <<2>>, <<FALSE>>, 1, 1234)

PA2 == Params(1, <<0>>, <<10000>>, <<2>>, <<FALSE>>, 1, 1232)

PB == Params(2, <<0, 0>>, <<10000, 10000>>, <<2, 1>>, <<TRUE, FALSE>>, 2, 5000)

PC == Params(3, <<0, 0, 0>>, <<10000, 10000, 10000>>, <<1, 1, 2>>,
             <<FALSE, FALSE, TRUE>>, 1, 5000)

CtorParams == {PA1, PA2, PB, PC}

\* A generator holding eigenpairs of the shape its parameters ask for, as
\* a run that computed them would; entry j of each array is distinct.
Complete(p) ==
    [Initialised(p) EXCEPT
        !.mEigenvals = [j \in 1..p.mNumEigenvals |-> 100 - j],
        !.mEigenvecs = [rows |-> Product(p.mNumGridPts), cols |-> p.mNumEigenvals,
                        data |-> [j \in 1..(Product(p.mNumGridPts) * p.mNumEigenvals)
                                    |-> 200 + j]]]

\* The cache directories a run can start from: nothing, or one record left
\* by an earlier run.
Dir(name, f) == [x \in {name} |-> f]

EmptyDir == [x \in {} |-> 0]

InitialDirs ==
    { EmptyDir,
      Dir(GetFilenameFromParams(PA2), Written(Complete(PA2))),
      Dir(GetFilenameFromParams(PB), Written(Complete(PB))) }

\* The file names operations are given.
Paths == {GetFilenameFromParams(p) : p \in CtorParams}

Put(dir, name, f) ==
    [x \in DOMAIN dir \cup {name} |-> IF x = name THEN f ELSE dir[x]]

\* keyCall and distCall outside their specifications.
Idle == [done |-> FALSE]

\* The cache variables outside Spec.
NoCache ==
    /\ files = EmptyDir
    /\ dir0 = EmptyDir
    /\ unreadable = {}
    /\ unwritable = {}
    /\ gens = <<>>
    /\ lastOp = NoOp
    /\ nOps = 0

Init ==
    /\ files \in InitialDirs
    /\ dir0 = files
    /\ unreadable \in {{}, {GetFilenameFromParams(PA1)}}
    /\ unwritable \in {{}, {GetFilenameFromParams(PB)}}
    /\ gens = <<>>
    /\ lastOp = NoOp
    /\ nOps = 0
    /\ keyCall = Idle
    /\ distCall = Idle

\* The constructor: the members are initialised from the arguments; when a
\* file of the derived name exists it is loaded (an unopenable one makes
\* the constructor throw, so no instance comes to exist), and otherwise
\* the body does nothing.
Construct(p) ==
    /\ nOps < MaxOps
    /\ Len(gens) < MaxGens
    /\ nOps' = nOps + 1
    /\ LET name == GetFilenameFromParams(Initialised(p))
       IN  IF Exists(name)
           THEN IF OpensForReading(name)
                THEN /\ \E g \in Loaded(Initialised(p), files[name]) :
                            gens' = Append(gens, [g EXCEPT !.path = "warm"])
                     /\ lastOp' = Op("ctor", Len(gens) + 1, name, "ok", 1,
                                     Asked(files[name]), Moved(files[name]))
                ELSE /\ gens' = gens
                     /\ lastOp' = Op("ctor", 0, name, "error", 1, 0, 0)
           ELSE /\ gens' = Append(gens, Initialised(p))
                /\ lastOp' = Op("ctor", Len(gens) + 1, name, "ok", 0, 0, 0)
    /\ UNCHANGED <<files, unreadable, unwritable, dir0, keyCall, distCall>>

\* The file, when there is one, was written by the same instantiation of
\* the template as instance i (a header of another SPACE_DIM has another
\* layout and is not modelled).
SameInstantiation(i, name) ==
    Exists(name) => files[name].header.dim = gens[i].dim

\* Mutant: the header is read and copied into the members before the
\* stream is tested, so a failed open leaves indeterminate parameters.
LoadFromCacheLateCheck(i, name) ==
    /\ nOps < MaxOps
    /\ i \in 1..Len(gens)
    /\ SameInstantiation(i, name)
    /\ nOps' = nOps + 1
    /\ IF OpensForReading(name)
       THEN /\ \E g \in Loaded(gens[i], files[name]) :
                   gens' = [gens EXCEPT ![i] = g]
            /\ lastOp' = Op("load", i, name, "ok", 1,
                            Asked(files[name]), Moved(files[name]))
       ELSE /\ \E u \in Uninit : gens' = [gens EXCEPT ![i].mLengthScale = u]
            /\ lastOp' = Op("load", i, name, "error", 1, 0, 0)
    /\ UNCHANGED <<files, unreadable, unwritable, dir0, keyCall, distCall>>

\* LoadFromCache(absoluteFilePath) on instance i.
LoadFromCache(i, name) ==
    /\ nOps < MaxOps
    /\ i \in 1..Len(gens)
    /\ SameInstantiation(i, name)
    /\ nOps' = nOps + 1
    /\ IF OpensForReading(name)
       THEN /\ \E g \in Loaded(gens[i], files[name]) :
                   gens' = [gens EXCEPT ![i] = g]
            /\ lastOp' = Op("load", i, name, "ok", 1,
                            Asked(files[name]), Moved(files[name]))
       ELSE /\ gens' = gens
            /\ lastOp' = Op("load", i, name, "error", 1, 0, 0)
    /\ UNCHANGED <<files, unreadable, unwritable, dir0, keyCall, distCall>>

\* SaveToCache() on instance i.
SaveToCache(i) ==
    /\ nOps < MaxOps
    /\ i \in 1..Len(gens)
    /\ nOps' = nOps + 1
    /\ LET name == GetFilenameFromParams(gens[i])
           f    == Written(gens[i])
       IN  IF OpensForWriting(name)
           THEN /\ files' = Put(files, name, f)
                /\ lastOp' = Op("save", i, name, "ok", 1,
                                Len(f.payload), Len(f.payload))
           ELSE /\ files' = files
                /\ lastOp' = Op("save", i, name, "error", 1, 0, 0)
    /\ UNCHANGED <<gens, unreadable, unwritable, dir0, keyCall, distCall>>

Next ==
    \/ \E p \in CtorParams : Construct(p)
    \/ \E i \in 1..MaxGens, name \in Paths : LoadFromCache(i, name)
    \/ \E i \in 1..MaxGens : SaveToCache(i)

Spec == Init /\ [][Next]_vars

(***************************************************************************)
(* SpecKey: GetFilenameFromParams on two parameter sets                    *)
(***************************************************************************)

\* The example of the specification's section 8.
Example == Params(2, <<0, 0>>, <<10000, 10000>>, <<3, 3>>, <<FALSE, FALSE>>, 4, 5000)

KeyParams ==
    { Params(1, <<lo>>, <<10000>>, <<2>>, <<per>>, 1, ls) :
        lo \in {-4, 0, 4}, per \in BOOLEAN, ls \in {1232, 1234, 1236} }
    \cup { Params(2, <<0, 0>>, <<10000, up>>, <<3, 3>>, <<FALSE, FALSE>>, 4, 5000) :
        up \in {9996, 10000, 10004, 20000} }
    \cup { Params(3, <<0, -10000, 0>>, <<10000, 10000, 123456>>, <<2, grid, 2>>,
                  <<FALSE, TRUE, FALSE>>, 3, ls) :
        grid \in {1, 12}, ls \in {2999, 3001} }

InitKey ==
    /\ NoCache
    /\ distCall = Idle
    /\ \E p \in KeyParams, q \in KeyParams :
          keyCall = [done |-> FALSE, p |-> p, q |-> q,
                     tokens |-> <<>>, name1 |-> "", name2 |-> ""]

\* Two instances with the members p and q each compute their file name.
CallGetFilenameFromParams ==
    /\ ~keyCall.done
    /\ keyCall' = [keyCall EXCEPT !.done = TRUE,
                                  !.tokens = FilenameTokens(keyCall.p),
                                  !.name1 = GetFilenameFromParams(keyCall.p),
                                  !.name2 = GetFilenameFromParams(keyCall.q)]
    /\ UNCHANGED <<files, unreadable, unwritable, gens, lastOp, nOps, dir0, distCall>>

NextKey == CallGetFilenameFromParams

SpecKey == InitKey /\ [][NextKey]_vars

(***************************************************************************)
(* SpecDist: GetSquaredDistAtoB on a domain and two locations              *)
(***************************************************************************)

\* Lower and upper corner of an axis.
Corners == {c \in (0..1) \X (1..MaxCoord) : c[1] < c[2]}

\* Domains of every dimension and periodicity; a domain of two or three
\* dimensions has the same corners on every axis.
DistDomain(n, c, per) ==
    [dim |-> n, mLowerCorner |-> [d \in 1..n |-> c[1]],
     mUpperCorner |-> [d \in 1..n |-> c[2]], mPeriodicity |-> per]

DistDomains ==
    { DistDomain(1, c, per) : c \in Corners, per \in [1..1 -> BOOLEAN] }
    \cup { DistDomain(2, c, per) : c \in Corners, per \in [1..2 -> BOOLEAN] }
    \cup { DistDomain(3, c, per) :
             c \in {<<0, MaxCoord>>, <<1, MaxCoord>>}, per \in [1..3 -> BOOLEAN] }

Locations(n) == [1..n -> 0..MaxCoord]

InitDist ==
    /\ NoCache
    /\ keyCall = Idle
    /\ \E g \in DistDomains :
          \E a \in Locations(g.dim), b \in Locations(g.dim) :
             distCall = [done |-> FALSE, g |-> g, a |-> a, b |-> b, result |-> 0]

CallGetSquaredDistAtoB ==
    /\ ~distCall.done
    /\ distCall' = [distCall EXCEPT
                        !.done = TRUE,
                        !.result = GetSquaredDistAtoB(distCall.g, distCall.a, distCall.b)]
    /\ UNCHANGED <<files, unreadable, unwritable, gens, lastOp, nOps, dir0, keyCall>>

NextDist == CallGetSquaredDistAtoB

SpecDist == InitDist /\ [][NextDist]_vars

(***************************************************************************)
(* Properties                                                              *)
(***************************************************************************)

\* The instance and the file the most recent operation acted on.
LastGen == gens[lastOp.gen]

LastFile == files[lastOp.file]

ColdConstructed ==
    /\ lastOp.op = "ctor" /\ lastOp.outcome = "ok"
    /\ LastGen.path = "cold"

WarmConstructed ==
    /\ lastOp.op = "ctor" /\ lastOp.outcome = "ok"
    /\ LastGen.path = "warm"

\* C1: when construction took the cold path, the eigenpairs have been
\* computed (the arrays hold numEigenvals modes) and Save has written them
\* to the file of the key.
ColdConstructionSaves ==
    ColdConstructed =>
        /\ Len(LastGen.mEigenvals) = LastGen.mNumEigenvals
        /\ lastOp.file \in DOMAIN files
        /\ LastFile.header = Header(LastGen)
        /\ LastFile.payload = LastGen.mEigenvals \o LastGen.mEigenvecs.data

\* C2: after a warm construction the six parameters are the ones of the
\* file's header, whatever the constructor was given, and the eigenvalues
\* and eigenvectors are the doubles of the file, in the file's order.
WarmPathOverride ==
    WarmConstructed =>
        /\ Header(LastGen) = LastFile.header
        /\ LastGen.mEigenvals \o LastGen.mEigenvecs.data = LastFile.payload

\* Lemma (the half of C2 that holds in every state): after a warm
\* construction the six parameters are the ones of the file's header and
\* the arrays have the sizes the header gives.
WarmPathParameters ==
    WarmConstructed =>
        /\ Header(LastGen) = LastFile.header
        /\ Len(LastGen.mEigenvals) = LastFile.header.mNumEigenvals
        /\ Len(LastGen.mEigenvecs.data) =
              Product(LastFile.header.mNumGridPts) * LastFile.header.mNumEigenvals

\* C3: a load of a file Save wrote gives back the parameters, the
\* eigenvalues and the eigenvector matrix Save was called with, and asks
\* for as many doubles as Save wrote.
CacheRoundTrip ==
    (lastOp.op \in {"load", "ctor"} /\ lastOp.outcome = "ok" /\ lastOp.opens = 1) =>
        /\ Header(LastGen) = LastFile.header
        /\ LastGen.mEigenvals = LastFile.savedVals
        /\ LastGen.mEigenvecs = LastFile.savedVecs
        /\ lastOp.asked = Len(LastFile.payload)

\* C4: from an empty directory, two constructions with the same arguments:
\* the second is warm and holds the eigenpairs of the first.
RepeatedConstructionWarm ==
    (dir0 = EmptyDir /\ nOps = 2 /\ Len(gens) = 2 /\ gens[1].supplied = gens[2].supplied) =>
        /\ gens[2].path = "warm"
        /\ gens[2].mEigenvals = gens[1].mEigenvals
        /\ gens[2].mEigenvecs = gens[1].mEigenvecs

\* C10: every constructed generator holds numEigenvals eigenvalues and an
\* eigenvector matrix of product(numGridPts) rows and as many columns as
\* eigenvalues.
EigenPairsShape ==
    \A i \in 1..Len(gens) :
        /\ Len(gens[i].mEigenvals) = gens[i].mNumEigenvals
        /\ gens[i].mEigenvecs.cols = Len(gens[i].mEigenvals)
        /\ gens[i].mEigenvecs.rows = Product(gens[i].mNumGridPts)

\* C9: a load fails exactly when its file cannot be opened for reading (the
\* constructor only loads a file that exists), a save exactly when its file
\* cannot be opened for writing; a failed operation opened the file once,
\* moved no double, and left every instance and every file as it was.
FailFast ==
    [][ nOps' # nOps =>
          /\ lastOp'.op = "load" =>
                (lastOp'.outcome = "error" <=>
                    (lastOp'.file \notin DOMAIN files \/ lastOp'.file \in unreadable))
          /\ lastOp'.op = "ctor" =>
                (lastOp'.outcome = "error" <=>
                    (lastOp'.file \in DOMAIN files /\ lastOp'.file \in unreadable))
          /\ lastOp'.op = "save" =>
                (lastOp'.outcome = "error" <=> lastOp'.file \in unwritable)
          /\ lastOp'.outcome = "error" =>
                /\ gens' = gens
                /\ files' = files
                /\ lastOp'.opens = 1
                /\ lastOp'.asked = 0
                /\ lastOp'.moved = 0 ]_vars

\* C9 witness: a failed load on an instance that holds eigenpairs.
FailFastWitness ==
    /\ lastOp.op = "load" /\ lastOp.outcome = "error"
    /\ LastGen.mEigenvals # <<>>
    /\ lastOp.file \in unreadable

\* C5: the distance from a to b is the distance from b to a.
DistanceSymmetry ==
    distCall.done =>
        distCall.result = GetSquaredDistAtoB(distCall.g, distCall.b, distCall.a)

\* C5 witness: two distinct locations on a periodic axis where the wrap is
\* the shorter way.
DistanceSymmetryWitness ==
    /\ distCall.done
    /\ distCall.g.dim = 2
    /\ distCall.g.mPeriodicity[1]
    /\ distCall.a[1] = 0 /\ distCall.b[1] = MaxCoord
    /\ distCall.a[2] > distCall.b[2]
    /\ distCall.result > 0

\* The per-axis separation as the specification words it.
AxisDelta(g, a, b, d) ==
    LET diff  == IF a[d] <= b[d] THEN b[d] - a[d] ELSE a[d] - b[d]
        width == g.mUpperCorner[d] - g.mLowerCorner[d]
    IN  IF g.mPeriodicity[d] /\ width - diff < diff THEN width - diff ELSE diff

Square(x) == x * x

\* C6: the result is the sum over the axes of the squared separation, the
\* separation on a periodic axis being the smaller of the difference and
\* the width minus the difference; on one periodic axis of width W the
\* points 0 and W - e, e at most half of W, are e * e apart.
PeriodicWrap ==
    distCall.done =>
        LET g == distCall.g
            a == distCall.a
            b == distCall.b
        IN  /\ g.dim = 1 => distCall.result = Square(AxisDelta(g, a, b, 1))
            /\ g.dim = 2 => distCall.result =
                    Square(AxisDelta(g, a, b, 1)) + Square(AxisDelta(g, a, b, 2))
            /\ g.dim = 3 => distCall.result =
                    Square(AxisDelta(g, a, b, 1)) + Square(AxisDelta(g, a, b, 2))
                    + Square(AxisDelta(g, a, b, 3))
            /\ (g.dim = 1 /\ g.mPeriodicity[1] /\ a[1] = 0) =>
                  \A e \in 0..MaxCoord :
                     LET W == g.mUpperCorner[1] - g.mLowerCorner[1]
                     IN  (2 * e <= W /\ b[1] = W - e) => distCall.result = e * e

\* C6 witness: width 3, points 0 and 2: one apart through the wrap.
PeriodicWrapWitness ==
    /\ distCall.done
    /\ distCall.g.dim = 1
    /\ distCall.g.mPeriodicity[1]
    /\ distCall.g.mUpperCorner[1] - distCall.g.mLowerCorner[1] = 3
    /\ distCall.a = <<0>> /\ distCall.b = <<2>>
    /\ distCall.result = 1

\* The double fields of a parameter set, in one sequence.
Doubles(p) == p.mLowerCorner \o p.mUpperCorner \o <<p.mLengthScale>>

\* The other fields.
Integrals(p) == <<p.dim, p.mNumGridPts, p.mPeriodicity, p.mNumEigenvals>>

\* v and w have the same sign and the same digits up to the 3rd decimal.
SameDigitsTo3rd(v, w) == (v < 0 <=> w < 0) /\ Abs(v) \div 10 = Abs(w) \div 10

\* v and w have the same sign and the same magnitude rounded to 3 decimals.
SameRoundedTo3rd(v, w) ==
    (v < 0 <=> w < 0) /\ (Abs(v) + 5) \div 10 = (Abs(w) + 5) \div 10

\* C7 as stated: equal parameters give equal names, and so do parameters
\* that differ only beyond the 3rd decimal of their double fields.
KeyCollisionBeyondThirdDecimal ==
    keyCall.done =>
        LET p == keyCall.p
            q == keyCall.q
        IN  ( /\ Integrals(p) = Integrals(q)
              /\ \A k \in 1..Len(Doubles(p)) : SameDigitsTo3rd(Doubles(p)[k], Doubles(q)[k]) )
            => keyCall.name1 = keyCall.name2

\* C7 amended: equal parameters give equal names, and so do parameters
\* whose double fields agree in sign and in magnitude rounded to the 3rd
\* decimal (the other fields being equal).
KeyCollisionOnRounding ==
    keyCall.done =>
        LET p == keyCall.p
            q == keyCall.q
        IN  /\ p = q => keyCall.name1 = keyCall.name2
            /\ ( /\ Integrals(p) = Integrals(q)
                 /\ \A k \in 1..Len(Doubles(p)) :
                       SameRoundedTo3rd(Doubles(p)[k], Doubles(q)[k]) )
               => keyCall.name1 = keyCall.name2

\* C7 witness: two different parameter sets with one name.
KeyCollisionWitness ==
    /\ keyCall.done
    /\ keyCall.p.mLengthScale # keyCall.q.mLengthScale
    /\ keyCall.p.mLowerCorner # keyCall.q.mLowerCorner
    /\ keyCall.name1 = keyCall.name2

\* The fields of the key in the order of the specification's section 4.2,
\* for any dimension: <<kind, value>>.
KeyFields(p) ==
    [k \in 1..(4 * p.dim + 2) |->
        IF k <= p.dim THEN <<"double", p.mLowerCorner[k]>>
        ELSE IF k <= 2 * p.dim THEN <<"double", p.mUpperCorner[k - p.dim]>>
        ELSE IF k <= 3 * p.dim THEN <<"unsigned", p.mNumGridPts[k - 2 * p.dim]>>
        ELSE IF k <= 4 * p.dim THEN <<"bool", IF p.mPeriodicity[k - 3 * p.dim] THEN 1 ELSE 0>>
        ELSE IF k = 4 * p.dim + 1 THEN <<"unsigned", p.mNumEigenvals>>
        ELSE <<"double", p.mLengthScale>>]

\* A value in fixed point with 3 decimals.
Fixed3(v) ==
    LET r == (Abs(v) + 5) \div 10
    IN  (IF v < 0 THEN "-" ELSE "") \o ToString(r \div 1000) \o "."
        \o ToString((r \div 100) % 10) \o ToString((r \div 10) % 10) \o ToString(r % 10)

FieldText(fld) == IF fld[1] = "double" THEN Fixed3(fld[2]) ELSE ToString(fld[2])

RECURSIVE Joined(_, _)
\* The texts of the fields from the k-th on, each followed by "_" but the last.
Joined(flds, k) ==
    IF k = Len(flds) THEN FieldText(flds[k])
    ELSE FieldText(flds[k]) \o "_" \o Joined(flds, k + 1)

DimTag(n) == CASE n = 1 -> "x_" [] n = 2 -> "xy_" [] n = 3 -> "xyz_"

\* Token 2 * k + 1 of the stream is field k.
FieldToken(toks, k) == toks[2 * k + 1]

RECURSIVE JoinedFixed3(_, _)
\* The same with every field, integral or not, in fixed point with 3 decimals.
JoinedFixed3(flds, k) ==
    LET text == Fixed3(IF flds[k][1] = "double" THEN flds[k][2] ELSE 10000 * flds[k][2])
    IN  IF k = Len(flds) THEN text ELSE text \o "_" \o JoinedFixed3(flds, k + 1)

\* C8 as stated: the name is the tag and then the fields in the fixed order
\* joined by "_", every numeric field with exactly 3 decimals, and ".rfg"
\* (in the directory CachedRandomFields/).
KeyFormatAllThreeDecimals ==
    keyCall.done =>
        /\ keyCall.name1 = "CachedRandomFields/" \o DimTag(keyCall.p.dim)
                           \o JoinedFixed3(KeyFields(keyCall.p), 1) \o ".rfg"
        /\ \A k \in 1..(4 * keyCall.p.dim + 2) :
              FieldToken(keyCall.tokens, k).decimals = 3

\* C8 amended: the name is "CachedRandomFields/", the tag, the fields in
\* the fixed order joined by "_", and ".rfg"; the corner components and the
\* length scale have exactly 3 decimals, the grid counts, the flags (0 or
\* 1) and the eigenvalue count are plain integers.
KeyFormat ==
    keyCall.done =>
        /\ keyCall.name1 = "CachedRandomFields/" \o DimTag(keyCall.p.dim)
                           \o Joined(KeyFields(keyCall.p), 1) \o ".rfg"
        /\ \A k \in 1..(4 * keyCall.p.dim + 2) :
              /\ FieldToken(keyCall.tokens, k).kind = KeyFields(keyCall.p)[k][1]
              /\ FieldToken(keyCall.tokens, k).decimals =
                    IF KeyFields(keyCall.p)[k][1] = "double" THEN 3 ELSE 0
        /\ keyCall.p = Example =>
              keyCall.name1 =
                 "CachedRandomFields/xy_0.000_0.000_1.000_1.000_3_3_0_0_4_0.500.rfg"

\* C8 witness: the name of the specification's example.
KeyFormatWitness ==
    /\ keyCall.done
    /\ keyCall.p = Example
    /\ keyCall.name1 = "CachedRandomFields/xy_0.000_0.000_1.000_1.000_3_3_0_0_4_0.500.rfg"

====
